---- MODULE Spec2Model ----
(***************************************************************************)
(* Model of scripts/determine-required-model-files.py: the ModelAnalyzer   *)
(* class (size probe, label generation, archive fetch / extraction, file   *)
(* classification) and the main() loop that rewrites the model catalog.    *)
(*                                                                         *)
(* Python strings are sequences of one-character strings, so that          *)
(* substring tests, lower(), capitalize(), sorted() and f-string           *)
(* composition are computed as the code computes them.                     *)
(***************************************************************************)
EXTENDS Integers, Sequences, FiniteSets, TLC

(***************************************************************************)
(* Characters and Python string primitives.                                *)
(***************************************************************************)

\* The printable ASCII characters in code-point order, starting at 32
\* (code 96 is a placeholder: no string of the model holds a grave accent).
Ascii ==
  << " ", "!", "\"", "#", "$", "%", "&", "'", "(", ")", "*", "+", ",", "-", ".", "/",
     "0", "1", "2", "3", "4", "5", "6", "7", "8", "9", ":", ";", "<", "=", ">", "?",
     "@", "A", "B", "C", "D", "E", "F", "G", "H", "I", "J", "K", "L", "M", "N", "O",
     "P", "Q", "R", "S", "T", "U", "V", "W", "X", "Y", "Z", "[", "\\", "]", "^", "_",
     "<grave>", "a", "b", "c", "d", "e", "f", "g", "h", "i", "j", "k", "l", "m", "n", "o",
     "p", "q", "r", "s", "t", "u", "v", "w", "x", "y", "z", "{", "|", "}", "~" >>

CharSet == { Ascii[k] : k \in DOMAIN Ascii }

\* ord(c)
Ord == [c \in CharSet |-> 31 + (CHOOSE k \in DOMAIN Ascii : Ascii[k] = c)]

\* chr(n)
Chr(n) == Ascii[n - 31]

LowerChar == [c \in CharSet |-> IF Ord[c] >= 65 /\ Ord[c] <= 90 THEN Chr(Ord[c] + 32) ELSE c]

UpperChar == [c \in CharSet |-> IF Ord[c] >= 97 /\ Ord[c] <= 122 THEN Chr(Ord[c] - 32) ELSE c]

\* str.lower()
Lower(s) == [k \in 1..Len(s) |-> LowerChar[s[k]]]

\* str.capitalize(): first character upper-cased, the rest lower-cased
Capitalize(s) == [k \in 1..Len(s) |-> IF k = 1 THEN UpperChar[s[k]] ELSE LowerChar[s[k]]]

\* sub in s
Contains(s, sub) ==
  \E k \in 0..(Len(s) - Len(sub)) : SubSeq(s, k + 1, k + Len(sub)) = sub

\* s.startswith(p)
StartsWith(s, p) == Len(s) >= Len(p) /\ SubSeq(s, 1, Len(p)) = p

\* s.endswith(p)
EndsWith(s, p) == Len(s) >= Len(p) /\ SubSeq(s, Len(s) - Len(p) + 1, Len(s)) = p

\* s.replace(old, new): every non-overlapping occurrence, left to right
RECURSIVE Replace(_, _, _)
Replace(s, old, new) ==
  IF Len(s) = 0 THEN << >>
  ELSE IF StartsWith(s, old) THEN new \o Replace(SubSeq(s, Len(old) + 1, Len(s)), old, new)
  ELSE << s[1] >> \o Replace(Tail(s), old, new)

\* The text after the last occurrence of the character c (all of s if none).
AfterLast(s, c) ==
  LET at == { k \in 1..Len(s) : s[k] = c }
  IN IF at = {} THEN s
     ELSE LET last == CHOOSE k \in at : \A j \in at : j <= k
          IN SubSeq(s, last + 1, Len(s))

\* os.path.basename(p)
Basename(p) == AfterLast(p, "/")

\* Python's ordering of str: by code point, a proper prefix first.
StrLeq(a, b) ==
  LET n == IF Len(a) < Len(b) THEN Len(a) ELSE Len(b)
      d == { k \in 1..n : a[k] # b[k] }
  IN IF d = {} THEN Len(a) <= Len(b)
     ELSE LET k == CHOOSE j \in d : \A m \in d : j <= m
          IN Ord[a[k]] < Ord[b[k]]

\* sorted(S) for a collection of distinct strings
RECURSIVE Sorted(_)
Sorted(S) ==
  IF S = {} THEN << >>
  ELSE LET least == CHOOSE x \in S : \A y \in S : StrLeq(x, y)
       IN << least >> \o Sorted(S \ {least})

\* sep.join(seq)
RECURSIVE Join(_, _)
Join(sep, seq) ==
  IF Len(seq) = 0 THEN << >>
  ELSE IF Len(seq) = 1 THEN seq[1]
  ELSE seq[1] \o sep \o Join(sep, Tail(seq))

\* Python's None, distinct from every string
None == << "None" >>

\* truthiness of an optional string: None and "" are false
Truthy(s) == s # None /\ Len(s) > 0

Digits == << "0", "1", "2", "3", "4", "5", "6", "7", "8", "9" >>

IsDigit(c) == \E k \in DOMAIN Digits : Digits[k] = c

DigitVal(c) == (CHOOSE k \in DOMAIN Digits : Digits[k] = c) - 1

\* int(s) succeeds (a plain decimal numeral); otherwise it raises ValueError
IsInt(s) == Len(s) > 0 /\ \A k \in 1..Len(s) : IsDigit(s[k])

\* int(s)
RECURSIVE ParseInt(_)
ParseInt(s) ==
  IF Len(s) = 0 THEN 0
  ELSE 10 * ParseInt(SubSeq(s, 1, Len(s) - 1)) + DigitVal(s[Len(s)])

\* str(n) for n >= 0
RECURSIVE IntToStr(_)
IntToStr(n) ==
  IF n < 10 THEN << Digits[n + 1] >>
  ELSE IntToStr(n \div 10) \o << Digits[(n % 10) + 1] >>

(***************************************************************************)
(* The string literals of the script.                                      *)
(***************************************************************************)

StrEmpty == << >>

StrUnknown == << "u", "n", "k", "n", "o", "w", "n" >>

StrB == << "B" >>

StrKB == << "K", "B" >>

StrMB == << "M", "B" >>

StrGB == << "G", "B" >>

StrTB == << "T", "B" >>

StrTiny == << "t", "i", "n", "y" >>

StrSmall == << "s", "m", "a", "l", "l" >>

StrBase == << "b", "a", "s", "e" >>

StrMedium == << "m", "e", "d", "i", "u", "m" >>

StrLarge == << "l", "a", "r", "g", "e" >>

StrLow == << "l", "o", "w" >>

StrHigh == << "h", "i", "g", "h" >>

StrEnUS == << "e", "n", "_", "U", "S" >>

StrEnGB == << "e", "n", "_", "G", "B" >>

StrWhisper == << "w", "h", "i", "s", "p", "e", "r" >>

StrEnglishLc == << "e", "n", "g", "l", "i", "s", "h" >>

StrZh == << "z", "h" >>

StrBilingual == << "b", "i", "l", "i", "n", "g", "u", "a", "l" >>

StrEnglish == << "E", "n", "g", "l", "i", "s", "h" >>

StrChinese == << "C", "h", "i", "n", "e", "s", "e" >>

StrMultilingual == << "M", "u", "l", "t", "i", "l", "i", "n", "g", "u", "a", "l" >>

StrCommaSpace == << ",", " " >>

StrStt == << "s", "t", "t" >>

StrTts == << "t", "t", "s" >>

StrVad == << "v", "a", "d" >>

StrVision == << "v", "i", "s", "i", "o", "n" >>

StrSTT == << "S", "T", "T" >>

StrTTS == << "T", "T", "S" >>

StrVAD == << "V", "A", "D" >>

StrObjectDetection == << "O", "b", "j", "e", "c", "t", " ", "D", "e", "t", "e", "c", "t", "i", "o", "n" >>

StrImageClassification == << "I", "m", "a", "g", "e", " ", "C", "l", "a", "s", "s", "i", "f", "i", "c", "a", "t", "i", "o", "n" >>

StrImageSegmentation == << "I", "m", "a", "g", "e", " ", "S", "e", "g", "m", "e", "n", "t", "a", "t", "i", "o", "n" >>

StrVisionTask == << "V", "i", "s", "i", "o", "n" >>

StrDetection == << "d", "e", "t", "e", "c", "t", "i", "o", "n" >>

StrClassification == << "c", "l", "a", "s", "s", "i", "f", "i", "c", "a", "t", "i", "o", "n" >>

StrSegmentation == << "s", "e", "g", "m", "e", "n", "t", "a", "t", "i", "o", "n" >>

StrLBracket == << "[" >>

StrRBracket == << "]" >>

StrLParen == << "(" >>

StrRParen == << ")" >>

StrCommaTilde == << ",", " ", "~" >>

StrLParenTilde == << "(", "~" >>

StrSpace == << " " >>

StrDot == << "." >>

StrOnnx == << ".", "o", "n", "n", "x" >>

StrToken == << "t", "o", "k", "e", "n" >>

StrVocab == << "v", "o", "c", "a", "b" >>

StrTarBz2 == << ".", "t", "a", "r", ".", "b", "z", "2" >>

StrTarGz == << ".", "t", "a", "r", ".", "g", "z" >>

StrZip == << ".", "z", "i", "p" >>

StrFileScheme == << "f", "i", "l", "e", ":", "/", "/" >>

StrSlash == << "/" >>

(***************************************************************************)
(* ModelAnalyzer.get_file_size: the remote size probe.                     *)
(* A response is [status, content_length, content_range]: status "error"   *)
(* is urlopen raising, a header is None when the response lacks it.        *)
(***************************************************************************)

HeadRequest == [method |-> "HEAD", range |-> "none"]

RangeRequest == [method |-> "GET", range |-> "bytes=0-0"]

\* The fallback of get_file_size: GET with "Range: bytes=0-0"; the size from
\* the content-range total, else the content-length, 0 when anything raises.
RangeFallbackSize(rng) ==
  IF rng.status = "error" THEN 0
  ELSE LET content_range == rng.content_range
           total == AfterLast(content_range, "/")
           content_length == rng.content_length
       IN IF Truthy(content_range) /\ Truthy(total)
          THEN (IF IsInt(total) THEN ParseInt(total) ELSE 0)
          ELSE IF Truthy(content_length)
               THEN (IF IsInt(content_length) THEN ParseInt(content_length) ELSE 0)
               ELSE 0

\* get_file_size(url) against a server that answers the HEAD request with
\* head and a ranged GET with rng. The result is the size and the requests
\* that were issued, in order.
get_file_size(head, rng) ==
  LET content_length == head.content_length
      headRaised == \/ head.status = "error"
                    \/ (Truthy(content_length) /\ ~IsInt(content_length))
  IN IF headRaised
     THEN [size |-> RangeFallbackSize(rng), requests |-> << HeadRequest, RangeRequest >>]
     ELSE IF Truthy(content_length)
          THEN [size |-> ParseInt(content_length), requests |-> << HeadRequest >>]
          ELSE [size |-> 0, requests |-> << HeadRequest >>]

(***************************************************************************)
(* ModelAnalyzer.format_size                                               *)
(***************************************************************************)

Kilo == 1024

Units == << StrB, StrKB, StrMB, StrGB >>

\* round(n / d) to the nearest integer, ties to even (the ".0f" format)
RoundHalfEven(n, d) ==
  LET q == n \div d
      r == n % d
  IN IF 2 * r > d THEN q + 1
     ELSE IF 2 * r < d THEN q
     ELSE IF q % 2 = 0 THEN q ELSE q + 1

\* the ".1f" format of n / d
FormatTenths(n, d) ==
  LET t == RoundHalfEven(10 * n, d)
  IN IntToStr(t \div 10) \o StrDot \o IntToStr(t % 10)

\* The loop of format_size: size_float is size_bytes / den at unit number k.
RECURSIVE FormatLoop(_, _, _)
FormatLoop(size_bytes, den, k) ==
  IF k > Len(Units) THEN FormatTenths(size_bytes, den) \o StrTB
  ELSE IF size_bytes \div den < Kilo
       THEN (IF Units[k] = StrB
             THEN IntToStr(size_bytes \div den) \o Units[k]
             ELSE IntToStr(RoundHalfEven(size_bytes, den)) \o Units[k])
       ELSE FormatLoop(size_bytes, den * Kilo, k + 1)

format_size(size_bytes) ==
  IF size_bytes = 0 THEN StrUnknown ELSE FormatLoop(size_bytes, 1, 1)

(***************************************************************************)
(* ModelAnalyzer.extract_model_metadata and generate_label                 *)
(* A descriptor is a record [key, type, kind, url, folder, label,          *)
(* required].                                                              *)
(***************************************************************************)

MetadataQuality(model) ==
  LET key == Lower(model.key)
      label == Lower(model.label)
  IN IF Contains(key, StrTiny) THEN StrTiny
     ELSE IF Contains(key, StrSmall) THEN StrSmall
     ELSE IF Contains(key, StrBase) THEN StrBase
     ELSE IF Contains(key, StrMedium) THEN StrMedium
     ELSE IF Contains(key, StrLarge) THEN StrLarge
     ELSE IF Contains(label, StrLow) THEN StrLow
     ELSE IF Contains(label, StrHigh) THEN StrHigh
     ELSE StrEmpty

MetadataLanguages(model) ==
  LET key == model.key
      label == model.label
      languages ==
        (IF \/ Contains(key, StrEnUS) \/ Contains(key, StrEnGB)
            \/ Contains(Lower(key), StrWhisper) \/ Contains(Lower(label), StrEnglishLc)
         THEN {StrEnglish} ELSE {})
        \cup (IF Contains(key, StrZh) \/ Contains(Lower(key), StrBilingual)
              THEN {StrChinese} ELSE {})
        \cup (IF Contains(Lower(key), StrBilingual) THEN {StrMultilingual} ELSE {})
  IN Join(StrCommaSpace, Sorted(languages))

MetadataTasks(model) ==
  LET kind == Lower(model.kind)
      tasks ==
        IF model.type = StrStt THEN {StrSTT}
        ELSE IF model.type = StrTts THEN {StrTTS}
        ELSE IF model.type = StrVad THEN {StrVAD}
        ELSE IF model.type = StrVision
             THEN (IF Contains(kind, StrDetection) THEN {StrObjectDetection}
                   ELSE IF Contains(kind, StrClassification) THEN {StrImageClassification}
                   ELSE IF Contains(kind, StrSegmentation) THEN {StrImageSegmentation}
                   ELSE {StrVisionTask})
        ELSE {}
  IN Join(StrCommaSpace, Sorted(tasks))

extract_model_metadata(model) ==
  [name      |-> model.key,
   quality   |-> MetadataQuality(model),
   languages |-> MetadataLanguages(model),
   tasks     |-> MetadataTasks(model),
   size      |-> StrEmpty]

\* generate_label raises AttributeError: the label is None and one of the
\* label.lower() calls of lines 165 and 172 is reached.
generate_label_raises(model) ==
  /\ model.label = None
  /\ \/ \A q \in { StrTiny, StrSmall, StrBase, StrMedium, StrLarge } :
          ~Contains(Lower(model.key), q)
     \/ ~(\/ Contains(model.key, StrEnUS) \/ Contains(model.key, StrEnGB)
           \/ Contains(Lower(model.key), StrWhisper))

\* ", ~<size>" when size_str is not empty
SizeSuffix(size_str) ==
  IF Len(size_str) > 0 THEN StrCommaTilde \o size_str ELSE StrEmpty

generate_label(model, size_str) ==
  LET metadata == extract_model_metadata(model)
      tier == IF Len(metadata.quality) > 0 /\ metadata.quality # StrBase
              THEN << StrLBracket \o Capitalize(metadata.quality) \o StrRBracket >>
              ELSE << >>
      paren ==
        IF Len(metadata.tasks) > 0
        THEN << StrLParen \o metadata.tasks
                \o (IF Len(metadata.languages) > 0
                    THEN StrCommaSpace \o metadata.languages ELSE StrEmpty)
                \o SizeSuffix(size_str) \o StrRParen >>
        ELSE IF Len(metadata.languages) > 0
        THEN << StrLParen \o metadata.languages \o SizeSuffix(size_str) \o StrRParen >>
        ELSE IF Len(size_str) > 0
        THEN << StrLParenTilde \o size_str \o StrRParen >>
        ELSE << >>
  IN Join(StrSpace, << metadata.name >> \o tier \o paren)

(***************************************************************************)
(* ModelAnalyzer.determine_required_files                                  *)
(***************************************************************************)

\* The test of the stt and tts branches on one file.
IsWeightOrTokenFile(file) ==
  LET file_lower == Lower(file)
  IN \/ EndsWith(file, StrOnnx)
     \/ Contains(file_lower, StrToken)
     \/ Contains(file_lower, StrVocab)

\* The test of the vad and vision branches on one file.
IsWeightFile(file) == EndsWith(file, StrOnnx)

\* The files appended to the list 'required', per model type.
SelectedFiles(files, model_type) ==
  IF model_type = StrStt THEN { f \in files : IsWeightOrTokenFile(f) }
  ELSE IF model_type = StrTts THEN { f \in files : IsWeightOrTokenFile(f) }
  ELSE IF model_type = StrVad THEN { f \in files : IsWeightFile(f) }
  ELSE IF model_type = StrVision THEN { f \in files : IsWeightFile(f) }
  ELSE {}

\* A variant of determine_required_files that returns 'required' without
\* sorting it: in an order the set iteration may produce (here, descending).
determine_required_files_unsorted(files, model_type) ==
  LET sorted == Sorted(SelectedFiles(files, model_type))
  IN [k \in 1..Len(sorted) |-> sorted[Len(sorted) + 1 - k]]

determine_required_files(files, model_type) == Sorted(SelectedFiles(files, model_type))

(***************************************************************************)
(* The environment: the catalog entries, servers and local files the       *)
(* script is run against.                                                  *)
(***************************************************************************)

UrlTar == << "h", "t", "t", "p", ":", "/", "/", "h", "/", "a", ".", "t", "a", "r", ".", "g", "z" >>

UrlLocalZip == << "f", "i", "l", "e", ":", "/", "/", "/", "b", ".", "z", "i", "p" >>

PathLocalZip == << "/", "b", ".", "z", "i", "p" >>

UrlLocalBin == << "f", "i", "l", "e", ":", "/", "/", "/", "c", ".", "b", "i", "n" >>

PathLocalBin == << "/", "c", ".", "b", "i", "n" >>

UrlMissing == << "f", "i", "l", "e", ":", "/", "/", "/", "d", "o", "e", "s", "/", "n", "o", "t", "/", "e", "x", "i", "s", "t" >>

UrlLocalOnnx == << "f", "i", "l", "e", ":", "/", "/", "/", "s", ".", "o", "n", "n", "x" >>

PathLocalOnnx == << "/", "s", ".", "o", "n", "n", "x" >>

KeyLow == << "l", "o", "w" >>

KeyTinyZh == << "t", "i", "n", "y", "-", "z", "h" >>

KeyV == << "v" >>

KeyN == << "n" >>

KeyS == << "s" >>

KeyU == << "u" >>

KeyX == << "x" >>

FolderM == << "m" >>

FolderV == << "v" >>

FolderN == << "n" >>

KindDetection == << "D", "e", "t", "e", "c", "t", "i", "o", "n" >>

LabelHigh == << "H", "i", "g", "h" >>

LabelOld == << "O", "l", "d" >>

LabelKeep == << "K", "e", "e", "p" >>

FileModelOnnx == << "m", "o", "d", "e", "l", ".", "o", "n", "n", "x" >>

FileTokensTxt == << "t", "o", "k", "e", "n", "s", ".", "t", "x", "t" >>

FileReadme == << "R", "E", "A", "D", "M", "E", ".", "m", "d" >>

FileNetUpper == << "N", "e", "t", ".", "O", "N", "N", "X" >>

FileNetLower == << "n", "e", "t", ".", "o", "n", "n", "x" >>

DirPkg == << "p", "k", "g" >>

FileOld == << "o", "l", "d", ".", "o", "n", "n", "x" >>

StrTilde == << "~" >>

\* The catalog entries a models.yaml is made of. A label is None when the
\* entry has a "label:" key without a value.
Descriptors ==
  { [key |-> KeyLow, type |-> StrStt, kind |-> StrEmpty, url |-> UrlTar,
     folder |-> FolderM, label |-> StrEmpty, required |-> << FileOld >>],
    [key |-> KeyTinyZh, type |-> StrVision, kind |-> KindDetection, url |-> UrlLocalZip,
     folder |-> FolderM, label |-> LabelHigh, required |-> << >>],
    [key |-> KeyV, type |-> StrVad, kind |-> StrEmpty, url |-> UrlMissing,
     folder |-> FolderV, label |-> LabelOld, required |-> << FileOld >>],
    [key |-> KeyN, type |-> StrTts, kind |-> StrEmpty, url |-> StrEmpty,
     folder |-> FolderN, label |-> LabelKeep, required |-> << FileOld >>],
    [key |-> KeyS, type |-> StrVad, kind |-> StrEmpty, url |-> UrlLocalOnnx,
     folder |-> StrEmpty, label |-> StrEmpty, required |-> << >>],
    [key |-> KeyU, type |-> StrUnknown, kind |-> StrEmpty, url |-> UrlLocalBin,
     folder |-> FolderV, label |-> StrEmpty, required |-> << FileOld >>],
    [key |-> KeyX, type |-> StrStt, kind |-> StrEmpty, url |-> UrlLocalOnnx,
     folder |-> FolderN, label |-> None, required |-> << FileOld >>] }

RemoteUrls == { UrlTar }

\* What each server sends for a complete download. A file is [members, size,
\* complete] and, once on disk, run: the paths (sequences of path segments)
\* of the archive it holds, its length in bytes, whether it holds the whole
\* archive, and the run that wrote it (0: before the first run).
Served ==
  [u \in RemoteUrls |->
     [members |-> { << FileModelOnnx >>, << FileTokensTxt >>, << FileReadme >> },
      size |-> 1536, complete |-> TRUE]]

\* The local files that exist, by path.
LocalPaths == { PathLocalOnnx, PathLocalZip, PathLocalBin }

LocalFiles ==
  [p \in LocalPaths |->
     IF p = PathLocalZip
     THEN [members |-> { << DirPkg, FileNetUpper >>, << DirPkg, FileNetLower >> },
           size |-> 42000000, complete |-> TRUE, run |-> 0]
     ELSE [members |-> {}, size |-> 512, complete |-> TRUE, run |-> 0]]

NoHeaders == [content_length |-> None, content_range |-> None]

ErrorResponse == [status |-> "error"] @@ NoHeaders

\* "bytes 0-0/<total>"
ContentRange(total) == << "b", "y", "t", "e", "s", " ", "0", "-", "0", "/" >> \o total

\* The answers a server may give to the HEAD request of the size probe.
HeadResponses(size) ==
  { ErrorResponse,
    [status |-> "ok", content_length |-> None, content_range |-> None],
    [status |-> "ok", content_length |-> StrEmpty, content_range |-> None],
    [status |-> "ok", content_length |-> IntToStr(size), content_range |-> None],
    [status |-> "ok", content_length |-> << "x" >>, content_range |-> None] }

\* The answers a server may give to the GET request with "Range: bytes=0-0".
RangeResponses(size) ==
  { ErrorResponse,
    [status |-> "ok", content_length |-> None, content_range |-> None],
    [status |-> "ok", content_length |-> << "1" >>, content_range |-> ContentRange(IntToStr(size))],
    [status |-> "ok", content_length |-> << "1" >>, content_range |-> ContentRange(<< "*" >>)],
    [status |-> "ok", content_length |-> IntToStr(size), content_range |-> None],
    [status |-> "ok", content_length |-> IntToStr(size), content_range |-> ContentRange(StrEmpty)],
    [status |-> "ok", content_length |-> << "x" >>, content_range |-> None] }

\* url.startswith("file://")
IsFileUrl(url) == StartsWith(url, StrFileScheme)

\* url.replace("file://", "")
LocalPath(url) == Replace(url, StrFileScheme, StrEmpty)

\* The (HEAD, ranged GET) answers the probe of url can meet in a run: a
\* file:// URL is opened by urllib's file handler, which reports the length
\* of an existing file and raises for a missing one.
ProbeScenarios(url) ==
  IF IsFileUrl(url)
  THEN (IF LocalPath(url) \in LocalPaths
        THEN { << [status |-> "ok", content_length |-> IntToStr(LocalFiles[LocalPath(url)].size),
                   content_range |-> None], ErrorResponse >> }
        ELSE { << ErrorResponse, ErrorResponse >> })
  ELSE IF url \in RemoteUrls
  THEN { << [status |-> "ok", content_length |-> IntToStr(Served[url].size),
             content_range |-> None], ErrorResponse >>,
         << [status |-> "ok", content_length |-> None, content_range |-> None],
            [status |-> "ok", content_length |-> << "1" >>,
             content_range |-> ContentRange(IntToStr(Served[url].size))] >>,
         << ErrorResponse, ErrorResponse >> }
  ELSE { << ErrorResponse, ErrorResponse >> }

(***************************************************************************)
(* The file system: the cache directories and the extraction workspace.    *)
(* A directory of files is a function from the names of the files it holds *)
(* to their contents. The workspace is [exists, dirs, files]: the paths    *)
(* (sequences of segments, relative to <temp_dir>/extracted) of the        *)
(* directories made and of the files written below temp_dir.               *)
(***************************************************************************)

\* The directory listing after writing file under name.
WriteFile(dir, name, file) ==
  [n \in DOMAIN dir \cup {name} |-> IF n = name THEN file ELSE dir[n]]

NoWorkspace == [exists |-> FALSE, dirs |-> {}, files |-> {}]

\* tempfile.mkdtemp(): a new, empty directory
NewWorkspace == [exists |-> TRUE, dirs |-> {}, files |-> {}]

\* The segments of a "/"-separated path, empty segments dropped.
RECURSIVE SplitPath(_)
SplitPath(s) ==
  IF Len(s) = 0 THEN << >>
  ELSE LET at == { k \in 1..Len(s) : s[k] = "/" }
       IN IF at = {} THEN << s >>
          ELSE LET first == CHOOSE k \in at : \A j \in at : k <= j
                   head == SubSeq(s, 1, first - 1)
                   rest == SplitPath(SubSeq(s, first + 1, Len(s)))
               IN IF Len(head) = 0 THEN rest ELSE << head >> \o rest

IsUnder(p, dir) == Len(p) > Len(dir) /\ SubSeq(p, 1, Len(dir)) = dir

\* Every directory of the workspace: those made, and the parents of files.
AllDirs(ws) ==
  ws.dirs \cup UNION { { SubSeq(p, 1, k) : k \in 0..(Len(p) - 1) } : p \in ws.files }

\* os.makedirs(path, exist_ok=True)
MakeDirs(ws, path) ==
  [ws EXCEPT !.dirs = @ \cup { SubSeq(path, 1, k) : k \in 0..Len(path) }]

\* The names d of os.listdir(dir) with os.path.isdir(os.path.join(dir, d)).
Subdirs(ws, dir) ==
  { p[Len(dir) + 1] : p \in { q \in AllDirs(ws) : IsUnder(q, dir) } }

\* ModelAnalyzer.get_files_in_folder: the paths of the files below
\* folder_path, relative to it.
get_files_in_folder(ws, folder_path) ==
  { Join(StrSlash, SubSeq(p, Len(folder_path) + 1, Len(p))) :
      p \in { q \in ws.files : IsUnder(q, folder_path) } }

(***************************************************************************)
(* ModelAnalyzer.extract_archive and the single-file copy.                 *)
(***************************************************************************)

IsTarName(archive_path) ==
  EndsWith(archive_path, StrTarBz2) \/ EndsWith(archive_path, StrTarGz)

IsZipName(archive_path) == EndsWith(archive_path, StrZip)

\* The outcomes of lines 359-371 on the file at archive_path: whether an
\* exception was raised, and the paths written below extract_dir. A tar
\* archive that is cut short raises after extracting some of its members
\* (part); a zip archive that is cut short raises before extracting any.
Extraction(archive_path, file, part) ==
  IF EndsWith(archive_path, StrOnnx)
  THEN [raised |-> FALSE, written |-> { << Basename(archive_path) >> }]
  ELSE IF IsTarName(archive_path)
  THEN (IF file.complete
        THEN [raised |-> FALSE, written |-> file.members]
        ELSE [raised |-> TRUE, written |-> part])
  ELSE IF IsZipName(archive_path)
  THEN (IF file.complete
        THEN [raised |-> FALSE, written |-> file.members]
        ELSE [raised |-> TRUE, written |-> {}])
  ELSE [raised |-> TRUE, written |-> {}]

\* The members a cut-short tar archive may have extracted before raising.
PartialExtractions(archive_path, file) ==
  IF IsTarName(archive_path) /\ ~file.complete
  THEN { s \in SUBSET file.members : s # file.members }
  ELSE { {} }

(***************************************************************************)
(* ModelAnalyzer.download_and_analyze_model                                *)
(***************************************************************************)

\* How the download of lines 325-353 can end: the whole body is written
\* ("ok"), urlopen raises before the cache file is opened ("refused"), or
\* the transfer raises after the cache file was opened, with half of the
\* body written ("cut").
DownloadOutcomes == { "ok", "refused", "cut" }

\* The file that lines 325-350 leave under the cache filename.
DownloadedFile(url, dl, run) ==
  IF dl = "ok" THEN Served[url] @@ [run |-> run]
  ELSE [members |-> Served[url].members, size |-> Served[url].size \div 2,
        complete |-> FALSE, run |-> run]

\* Lines 306-353: the archive to analyze. Returns the cache directory's
\* files afterwards, whether an archive is available (else the method
\* returns []), its path and contents, and how it was obtained.
FetchArchive(url, cacheFiles, dl, run) ==
  IF IsFileUrl(url)
  THEN LET local_path == LocalPath(url)
       IN IF local_path \in LocalPaths
          THEN [cacheFiles |-> cacheFiles, ok |-> TRUE, archive_path |-> local_path,
                file |-> LocalFiles[local_path], fetch |-> "local"]
          ELSE [cacheFiles |-> cacheFiles, ok |-> FALSE, archive_path |-> local_path,
                file |-> [members |-> {}, size |-> 0, complete |-> FALSE, run |-> 0],
                fetch |-> "local_missing"]
  ELSE LET filename == Basename(url)
       IN IF filename \in DOMAIN cacheFiles
          THEN [cacheFiles |-> cacheFiles, ok |-> TRUE, archive_path |-> filename,
                file |-> cacheFiles[filename], fetch |-> "cached"]
          ELSE IF dl = "refused"
          THEN [cacheFiles |-> cacheFiles, ok |-> FALSE, archive_path |-> filename,
                file |-> [members |-> {}, size |-> 0, complete |-> FALSE, run |-> 0],
                fetch |-> "download_failed"]
          ELSE [cacheFiles |-> WriteFile(cacheFiles, filename, DownloadedFile(url, dl, run)),
                ok |-> dl = "ok", archive_path |-> filename,
                file |-> DownloadedFile(url, dl, run),
                fetch |-> IF dl = "ok" THEN "downloaded" ELSE "download_failed"]

\* Lines 373-386: the model root below extract_dir.
ModelRoot(ws, extract_dir) ==
  LET subdirs == Subdirs(ws, extract_dir)
  IN IF Cardinality(subdirs) = 1
     THEN extract_dir \o << CHOOSE d \in subdirs : TRUE >>
     ELSE extract_dir

\* download_and_analyze_model(url, folder_name, model_type) run with the
\* cache directory holding cacheFiles and the workspace ws, in an
\* environment env = [dl, part]. ret: the list it returned; failure: why it
\* returned [] early; files: the inventory it classified; own: the part of
\* model_root that this call's archive wrote.
download_and_analyze_model(url, folder_name, model_type, cacheFiles, ws, env, run) ==
  LET fetched == FetchArchive(url, cacheFiles, env.dl, run)
      extract_dir == SplitPath(folder_name)
      made == MakeDirs(ws, extract_dir)
      ex == Extraction(fetched.archive_path, fetched.file, env.part)
      extracted == [made EXCEPT !.files = @ \cup { extract_dir \o m : m \in ex.written }]
      model_root == ModelRoot(extracted, extract_dir)
      files == get_files_in_folder(extracted, model_root)
      written == [extracted EXCEPT !.files = { extract_dir \o m : m \in ex.written }]
      base == [ret |-> << >>, cacheFiles |-> fetched.cacheFiles,
               ws |-> ws, fetch |-> fetched.fetch, file |-> fetched.file,
               files |-> {}, own |-> {}, failure |-> "none"]
  IN IF ~fetched.ok
     THEN [base EXCEPT !.failure = IF IsFileUrl(url) THEN "missing_local" ELSE "download"]
     ELSE IF ex.raised
     THEN [base EXCEPT !.ws = extracted, !.failure = "extract"]
     ELSE IF files = {}
     THEN [base EXCEPT !.ws = extracted, !.failure = "empty"]
     ELSE [base EXCEPT !.ws = extracted, !.files = files,
                       !.own = get_files_in_folder(written, model_root),
                       !.ret = determine_required_files(files, model_type)]

(***************************************************************************)
(* main(): the state of the script run repeatedly on one models.yaml.      *)
(***************************************************************************)

\* The longest catalog.
MaxModels == 2

\* The number of times the script is run.
MaxRuns == 2

\* The largest inventory handed to the classifier on its own.
MaxFiles == 3

VARIABLES
  document,     \* the models.yaml on disk: [models, other]
  args,         \* the command line: [no_cache, cache_dir]
  cache,        \* the files of each cache directory
  workspace,    \* the analyzer's temp_dir
  models_data,  \* main's models_data: the catalog in memory
  pc,           \* "idle" between runs, "loop" inside the with block,
                \* "aborted" after a run that an exception ended
  i,            \* the index of the descriptor the loop is at
  run,          \* the number of runs started
  loaded,       \* models_data as load_models_yaml returned it
  log,          \* what happened to each descriptor of this run, in order
  saves,        \* the number of save_models_yaml calls of this run
  prev_ok,      \* the descriptors the previous run analyzed without failure
  call          \* the last call of a function made on its own

vars == << document, args, cache, workspace, models_data, pc, i, run, loaded, log, saves,
          prev_ok, call >>

\* The top-level keys of models.yaml other than "models".
OtherKeys == [version |-> << "1" >>]

\* The catalogs of at most MaxModels entries, their keys distinct.
Catalogs ==
  UNION { { c \in [1..n -> Descriptors] :
              \A a, b \in 1..n : a # b => c[a].key # c[b].key } : n \in 0..MaxModels }

DefaultCacheDir == ".model_cache"

CustomCacheDir == "/cache"

CacheDirs == { DefaultCacheDir, CustomCacheDir }

\* The command lines: --no-cache given or not, --cache-dir given or not.
ArgSets == [no_cache : BOOLEAN, cache_dir : { "None", CustomCacheDir }]

NoCall == [op |-> "none"]

\* Lines 518-527 and ModelAnalyzer.__init__: the directory the analyzer caches
\* downloads in.
AnalyzerCacheDir(a) ==
  LET cache_dir == IF ~a.no_cache THEN a.cache_dir ELSE "None"
  IN IF cache_dir = "None" THEN DefaultCacheDir ELSE cache_dir

Init ==
  /\ document \in { [models |-> c, other |-> OtherKeys] : c \in Catalogs }
  /\ args \in ArgSets
  /\ cache = [d \in CacheDirs |-> << >>]
  /\ workspace = NoWorkspace
  /\ models_data = [models |-> << >>, other |-> OtherKeys]
  /\ pc = "idle"
  /\ i = 0
  /\ run = 0
  /\ loaded = [models |-> << >>, other |-> OtherKeys]
  /\ log = << >>
  /\ saves = 0
  /\ prev_ok = {}
  /\ call = NoCall

\* Lines 507-527: load models.yaml, construct the analyzer, enter its context.
\* A run that an exception ended wrote no catalog, so the run after it has
\* no earlier result to be compared with.
StartRun ==
  /\ pc \in { "idle", "aborted" }
  /\ run < MaxRuns
  /\ run' = run + 1
  /\ models_data' = document
  /\ loaded' = document
  /\ workspace' = NewWorkspace
  /\ pc' = "loop"
  /\ i' = 1
  /\ log' = << >>
  /\ saves' = 0
  /\ prev_ok' = IF pc = "aborted" THEN {}
                ELSE { log[k].index : k \in { j \in 1..Len(log) : log[j].status = "updated"
                                                               /\ log[j].failure = "none" } }
  /\ UNCHANGED << document, args, cache, call >>

\* Lines 528-538: a descriptor without a URL is skipped.
SkipDescriptor ==
  /\ pc = "loop"
  /\ i <= Len(models_data.models)
  /\ Len(models_data.models[i].url) = 0
  /\ log' = Append(log, [index |-> i, status |-> "skipped", failure |-> "none",
                         fetch |-> "none", file_run |-> 0, file_complete |-> FALSE,
                         probe_size |-> 0, recovered |-> FALSE,
                         inventory |-> {}, own |-> {}])
  /\ i' = i + 1
  /\ UNCHANGED << document, args, cache, workspace, models_data, pc, run, loaded, saves,
                  prev_ok, call >>

\* A variant of UpdateModel that rebuilds the descriptor from the fields the
\* loop read, dropping its kind.
UpdateModelRebuilt(model, required_files, generated_label) ==
  [key |-> model.key, type |-> model.type, kind |-> StrEmpty, url |-> model.url,
   folder |-> model.folder, label |-> generated_label, required |-> required_files]

\* Lines 568-569: the descriptor with its derived fields replaced.
UpdateModel(model, required_files, generated_label) ==
  [model EXCEPT !.required = required_files, !.label = generated_label]

\* Lines 555-558: the probe returned 0 and the cache holds a file for url.
SizeFromDisk(url, file_size, cacheFiles) ==
  file_size = 0 /\ ~IsFileUrl(url) /\ Basename(url) \in DOMAIN cacheFiles

\* Lines 555-563: the size the final label is generated from: the probed
\* size, or the length of the cache file when the probe returned 0.
FinalSize(url, file_size, cacheFiles) ==
  IF SizeFromDisk(url, file_size, cacheFiles)
  THEN cacheFiles[Basename(url)].size
  ELSE file_size

\* A variant of NextIndex in which a failed descriptor ends the loop.
NextIndexAbortOnFailure(index, failed) ==
  IF failed THEN Len(models_data.models) + 1 ELSE index + 1

\* Lines 528 and 570-571: the loop advances to the next descriptor, whatever
\* happened to this one.
NextIndex(index, failed) == index + 1

\* Lines 528-571: one iteration of the loop on a descriptor with a URL whose
\* label can be generated.
ProcessDescriptor ==
  /\ pc = "loop"
  /\ i <= Len(models_data.models)
  /\ Len(models_data.models[i].url) > 0
  /\ ~generate_label_raises(models_data.models[i])
  /\ LET model == models_data.models[i]
         url == model.url
         cache_dir == AnalyzerCacheDir(args)
         needsDownload == ~IsFileUrl(url) /\ Basename(url) \notin DOMAIN cache[cache_dir]
     IN \E probe \in ProbeScenarios(url), dl \in DownloadOutcomes :
          /\ ~needsDownload => dl = "ok"
          /\ \E part \in PartialExtractions(Basename(url),
                            FetchArchive(url, cache[cache_dir], dl, run).file) :
               LET file_size == get_file_size(probe[1], probe[2]).size
                   r == download_and_analyze_model(url, model.folder, model.type,
                          cache[cache_dir], workspace, [dl |-> dl, part |-> part], run)
                   final_size == FinalSize(url, file_size, r.cacheFiles)
                   generated_label == generate_label(model, format_size(final_size))
               IN /\ models_data' =
                       [models_data EXCEPT
                          !.models[i] = UpdateModel(model, r.ret, generated_label)]
                  /\ cache' = [cache EXCEPT ![cache_dir] = r.cacheFiles]
                  /\ workspace' = r.ws
                  /\ log' = Append(log,
                       [index |-> i, status |-> "updated",
                        failure |-> r.failure, fetch |-> r.fetch,
                        file_run |-> r.file.run, file_complete |-> r.file.complete,
                        probe_size |-> file_size,
                        recovered |-> SizeFromDisk(url, file_size, r.cacheFiles),
                        inventory |-> r.files, own |-> r.own])
                  /\ i' = NextIndex(i, r.failure # "none")
  /\ UNCHANGED << document, args, pc, run, loaded, saves, prev_ok, call >>

\* Lines 540-549 and 570-571: generate_label raises before anything is
\* downloaded; main's except reports it and the loop goes on.
ProcessDescriptorRaises ==
  /\ pc = "loop"
  /\ i <= Len(models_data.models)
  /\ Len(models_data.models[i].url) > 0
  /\ generate_label_raises(models_data.models[i])
  /\ log' = Append(log, [index |-> i, status |-> "exception", failure |-> "exception",
                         fetch |-> "none", file_run |-> 0, file_complete |-> FALSE,
                         probe_size |-> 0, recovered |-> FALSE,
                         inventory |-> {}, own |-> {}])
  /\ i' = NextIndex(i, TRUE)
  /\ UNCHANGED << document, args, cache, workspace, models_data, pc, run, loaded, saves,
                  prev_ok, call >>

\* A variant of ModelAnalyzer_exit that leaves the temp_dir in place.
ModelAnalyzer_exit_keeps(ws) == ws

\* ModelAnalyzer.__exit__: the temp_dir, when there is one, is removed with
\* everything below it.
ModelAnalyzer_exit(ws) == IF ws.exists THEN NoWorkspace ELSE ws

\* Lines 61-65 and 573-580: leave the with block (the temp_dir is removed)
\* and serialize the catalog.
FinishRun ==
  /\ pc = "loop"
  /\ i > Len(models_data.models)
  /\ workspace' = ModelAnalyzer_exit(workspace)
  /\ document' = models_data
  /\ saves' = saves + 1
  /\ pc' = "idle"
  /\ UNCHANGED << args, cache, models_data, i, run, loaded, log, prev_ok, call >>

\* Lines 527-571: KeyboardInterrupt is raised inside the with block, before
\* a descriptor is taken up or after the last one. It is not an Exception,
\* so the except of line 570 does not catch it: the with statement calls
\* __exit__ and the exception leaves main before the catalog is saved.
Interrupted ==
  /\ pc = "loop"
  /\ workspace' = ModelAnalyzer_exit(workspace)
  /\ pc' = "aborted"
  /\ UNCHANGED << document, args, cache, models_data, i, run, loaded, log, saves,
                  prev_ok, call >>

Next ==
  \/ StartRun \/ SkipDescriptor \/ ProcessDescriptor \/ ProcessDescriptorRaises
  \/ FinishRun \/ Interrupted

Spec == Init /\ [][Next]_vars

(***************************************************************************)
(* The classifier and the size probe called on their own, on every input   *)
(* of a bounded set.                                                       *)
(***************************************************************************)

\* File names of an inventory: weights in both cases, tokenizer resources,
\* documentation, and a file below a directory.
FileUniverse ==
  { FileModelOnnx, FileNetUpper, FileNetLower, FileTokensTxt, FileReadme,
    << "V", "o", "c", "a", "b", ".", "j", "s", "o", "n" >>,
    << "a", "/", "T", "O", "K", "E", "N", "S" >> }

ModelTypes == { StrStt, StrTts, StrVad, StrVision, StrUnknown }

Inventories == { s \in SUBSET FileUniverse : Cardinality(s) <= MaxFiles }

\* The content-length a server of the probe's inputs reports.
ProbedSize == Served[UrlTar].size

InitFn ==
  /\ document = [models |-> << >>, other |-> OtherKeys]
  /\ args = [no_cache |-> FALSE, cache_dir |-> "None"]
  /\ cache = [d \in CacheDirs |-> << >>]
  /\ workspace = NoWorkspace
  /\ models_data = [models |-> << >>, other |-> OtherKeys]
  /\ pc = "idle"
  /\ i = 0
  /\ run = 0
  /\ loaded = [models |-> << >>, other |-> OtherKeys]
  /\ log = << >>
  /\ saves = 0
  /\ prev_ok = {}
  /\ call = NoCall

CallDetermineRequiredFiles ==
  /\ \E files \in Inventories, model_type \in ModelTypes :
       call' = [op |-> "determine_required_files", files |-> files,
                model_type |-> model_type,
                result |-> determine_required_files(files, model_type)]
  /\ UNCHANGED << document, args, cache, workspace, models_data, pc, i, run, loaded, log,
                  saves, prev_ok >>

CallGetFileSize ==
  /\ \E head \in HeadResponses(ProbedSize), rng \in RangeResponses(ProbedSize) :
       call' = [op |-> "get_file_size", head |-> head, rng |-> rng,
                result |-> get_file_size(head, rng)]
  /\ UNCHANGED << document, args, cache, workspace, models_data, pc, i, run, loaded, log,
                  saves, prev_ok >>

NextFn == CallDetermineRequiredFiles \/ CallGetFileSize

SpecFn == InitFn /\ [][NextFn]_vars

(***************************************************************************)
(* Properties.                                                             *)
(***************************************************************************)

\* The entries of this run's log.
Entries == 1..Len(log)

\* The descriptor of log entry k as it is now, and as it was loaded.
Now(k) == models_data.models[log[k].index]

Before(k) == loaded.models[log[k].index]

\* C1: every descriptor whose processing failed (missing local file,
\* download error, unsupported or corrupt archive, empty inventory, or an
\* unexpected exception) has the `required` and `label` it had before the run.
C1_FailedDescriptorKeepsDerivedFields ==
  \A k \in Entries :
    log[k].failure # "none" =>
      /\ Now(k).required = Before(k).required
      /\ Now(k).label = Before(k).label

\* C2: the run attempts each descriptor exactly once, one at a time in
\* catalog order, whatever failed before it, and serializes the catalog
\* exactly once, after the last descriptor: the log is always the descriptors
\* 1..Len(log) in order; inside the loop nothing has been saved and the log
\* holds every descriptor before the current one; once the run has ended, the
\* log holds every descriptor and the catalog has been saved once.
C2_EachDescriptorOnceThenOneSave ==
  /\ \A k \in Entries : log[k].index = k
  /\ pc = "loop" => (saves = 0 /\ Len(log) = i - 1 /\ i <= Len(models_data.models) + 1)
  /\ (pc = "idle" /\ run > 0) =>
        (saves = 1 /\ Len(log) = Len(loaded.models) /\ document = models_data)

\* C2 witness: a run has ended in which the first descriptor failed and the
\* second was analyzed and updated.
C2_Witness ==
  /\ pc = "idle" /\ run > 0 /\ saves = 1
  /\ Len(log) = 2
  /\ log[1].failure # "none"
  /\ log[2].status = "updated" /\ log[2].failure = "none"

\* The fields of a descriptor that are not derived.
SameGivenFields(a, b) ==
  /\ a.key = b.key /\ a.type = b.type /\ a.kind = b.kind
  /\ a.url = b.url /\ a.folder = b.folder

\* C3: across a resolution pass the catalog in memory keeps its number of
\* descriptors and their order, every descriptor keeps its key, type, kind,
\* url and folder, the other top-level keys are unchanged, and a descriptor
\* skipped for lack of a URL is unchanged altogether.
C3_OnlyDerivedFieldsChange ==
  /\ Len(models_data.models) = Len(loaded.models)
  /\ \A k \in 1..Len(loaded.models) :
       SameGivenFields(models_data.models[k], loaded.models[k])
  /\ models_data.other = loaded.other
  /\ \A k \in Entries : log[k].status = "skipped" => Now(k) = Before(k)

\* C3 witness: a run has ended that skipped one descriptor and rewrote the
\* derived fields of another, whose kind is not empty.
C3_Witness ==
  /\ pc = "idle" /\ run > 0
  /\ \E k \in Entries : log[k].status = "skipped"
  /\ \E k \in Entries : /\ log[k].status = "updated"
                        /\ Now(k) # Before(k)
                        /\ Len(Now(k).kind) > 0

\* C4: no cache directory ever holds a truncated file under a cache
\* filename, and every file a run reuses from the cache is a complete archive.
C4_CacheHoldsOnlyCompleteFiles ==
  /\ \A d \in CacheDirs : \A f \in DOMAIN cache[d] : cache[d][f].complete
  /\ \A k \in Entries : log[k].fetch = "cached" => log[k].file_complete

\* C5: a second run on the output of a first run, for a descriptor both runs
\* analyzed without failure from the same archive, writes the `required` and
\* `label` the first run wrote.
C5_SecondRunWritesTheSame ==
  \A k \in Entries :
    (/\ run >= 2
     /\ log[k].status = "updated" /\ log[k].failure = "none"
     /\ log[k].index \in prev_ok) =>
      /\ Now(k).required = Before(k).required
      /\ Now(k).label = Before(k).label

\* C6: with --no-cache no remote descriptor is served from a file that an
\* earlier run left on disk.
C6_NoCacheNeverReusesEarlierDownload ==
  args.no_cache =>
    \A k \in Entries : log[k].fetch = "cached" => log[k].file_run = run

\* The rule of C7 on one file, matched on the lower-cased name.
C7_Selects(file, model_type) ==
  LET name == Lower(file)
  IN IF model_type \in { StrStt, StrTts }
     THEN EndsWith(name, StrOnnx) \/ Contains(name, StrToken) \/ Contains(name, StrVocab)
     ELSE IF model_type \in { StrVad, StrVision }
     THEN EndsWith(name, StrOnnx)
     ELSE FALSE

\* The elements of a list.
Elements(seq) == { seq[k] : k \in 1..Len(seq) }

\* C7: determine_required_files returns exactly the files its type's rule
\* selects, matching case-insensitively: stt and tts select the files with
\* the .onnx extension or with "token" or "vocab" in the name, vad and vision
\* the files with the .onnx extension, any other type none.
C7_ExactlyTheRuleCaseInsensitive ==
  call.op = "determine_required_files" =>
    Elements(call.result) = { f \in call.files : C7_Selects(f, call.model_type) }

\* C8: the list determine_required_files returns is a subset of the
\* inventory, sorted ascending, without duplicates, and empty for the empty
\* inventory.
C8_SubsetSortedNoDuplicates ==
  call.op = "determine_required_files" =>
    /\ Elements(call.result) \subseteq call.files
    /\ \A j, k \in 1..Len(call.result) :
         j < k => (StrLeq(call.result[j], call.result[k]) /\ call.result[j] # call.result[k])
    /\ call.files = {} => call.result = << >>

\* C8 witness: the classifier returned two files of an inventory of three,
\* leaving one out.
C8_Witness ==
  /\ call.op = "determine_required_files"
  /\ Len(call.result) = 2
  /\ Cardinality(call.files) = 3

\* A header value that holds a length.
Usable(header) == Truthy(header) /\ IsInt(header)

\* The size C9 describes for the ranged fetch: the content-range total, else
\* the content-length of the same response, else 0.
C9_FallbackSize(rng) ==
  IF rng.status = "error" THEN 0
  ELSE IF Truthy(rng.content_range) /\ Usable(AfterLast(rng.content_range, "/"))
  THEN ParseInt(AfterLast(rng.content_range, "/"))
  ELSE IF Usable(rng.content_length) THEN ParseInt(rng.content_length)
  ELSE 0

\* C9: whenever the HEAD query yields no usable length (it fails in
\* transport, or succeeds without a content-length header), a single-byte
\* ranged fetch is issued next and the size is the content-range total, else
\* that response's content-length, else 0.
C9_RangedFetchAfterUnusableHead ==
  (/\ call.op = "get_file_size"
   /\ (call.head.status = "error" \/ ~Truthy(call.head.content_length))) =>
    /\ call.result.requests = << HeadRequest, RangeRequest >>
    /\ call.result.size = C9_FallbackSize(call.rng)

\* C10: when the size probe returned 0 and no size was recovered from a
\* cached file, the label written holds no "~<size>" fragment.
C10_NoSizeSegmentWhenSizeUnknown ==
  \A k \in Entries :
    (log[k].status = "updated" /\ log[k].probe_size = 0 /\ ~log[k].recovered) =>
      ~Contains(Now(k).label, StrTilde)

\* C11: the extraction workspace exists exactly while the run is inside the
\* analyzer context. It is created, empty, by the step that enters the
\* context and by no other step; inside the context it is never replaced
\* (what was extracted stays); and every step that leaves the context --
\* after the last descriptor, whatever failed before, or by an exception that
\* escapes the loop -- leaves no workspace and no extracted file behind, so
\* the next run starts from an empty one.
C11_WorkspaceLivesExactlyOneRun ==
  [][ /\ (pc' = "loop") = workspace'.exists
      /\ pc' # "loop" => workspace' = NoWorkspace
      /\ (pc # "loop" /\ pc' = "loop") => workspace' = NewWorkspace
      /\ (pc = "loop" /\ pc' = "loop") =>
           /\ workspace.dirs \subseteq workspace'.dirs
           /\ workspace.files \subseteq workspace'.files ]_vars

\* C11 witness: a run that extracted one descriptor's archive and failed on
\* another was ended by an exception escaping the loop, and its workspace
\* is gone.
C11_Witness ==
  /\ pc = "aborted"
  /\ workspace = NoWorkspace
  /\ \E k \in Entries : log[k].status = "updated" /\ log[k].failure = "none"
  /\ \E k \in Entries : log[k].failure \in { "extract", "exception" }

\* C12: the inventory computed for a descriptor holds only files that its
\* own archive put into the workspace, whatever descriptors were processed
\* before it in the run.
C12_InventoryHoldsOnlyOwnFiles ==
  \A k \in Entries :
    (log[k].status = "updated" /\ log[k].failure = "none") =>
      log[k].inventory \subseteq log[k].own

====
